---- MODULE Spec2Model ----
(***************************************************************************)
(* Model of agent.py: the Dockerfile generate / build / refine / run /     *)
(* test / judge control loop of main(), and the process runner run().      *)
(*                                                                         *)
(* Texts are sequences of one-character strings, so that str.strip() and   *)
(* str.lower() are computed as Python computes them.  The results of the   *)
(* external collaborators (LLM calls, docker commands) are the inputs of   *)
(* the actions, drawn from the small sets below.                           *)
(*                                                                         *)
(* run() is treated by the main loop as a call that returns                *)
(* (code, stdout, stderr): no caller passes check=True, so run() itself    *)
(* raises nothing.  Its pipe-draining loop is modelled separately          *)
(* (RunSpec / FairRunSpec), and inside main() for the `docker build`       *)
(* command (MainRunSpec / FairMainRunSpec).                                *)
(***************************************************************************)
EXTENDS Integers, Sequences, FiniteSets, TLC

VARIABLES
  pc,            \* position of main(): start, ensure, ensure_poll, loop,
                 \*   build, refine, run, probe, exec, judge, diag, done
                 \*   (resolved, detected: the two functions applied alone)
  exitCode,      \* argument of sys.exit, NoExit while running
  attempt,       \* main(): `attempt` of the for loop (0 before the loop)
  build_attempt, \* docker_build(): `attempt`
  dockerfile,    \* the file <project_root>/Dockerfile
  readme_exists, \* readme_path.exists()
  pkg_exists,    \* (project_root / "package.json").exists()
  collab,        \* collaborator call made by the latest step and its result
  verdict,       \* main(): `verdict`
  built,         \* descriptor the latest `docker build` ran against
  builds,        \* image builds made by the current docker_build() call
  cycles,        \* outer cycles that reached Judge
  true_seen,     \* some Judge produced the verdict "true"
  last_text,     \* text returned by the latest successful generation
                 \*   or effective refinement
  \* ---- the process's inputs
  argv,          \* sys.argv
  environ,       \* os.environ: the three specification variables
  spec_file,     \* the file a --spec-file argument names
  readme_text,   \* the README, by what detect_port_from_text finds in it
  scripts,       \* values of package.json's "scripts", the same way
  env_files,     \* texts of the .env files present, the same way
  descriptors,   \* descriptor texts the generator and the refiner may
                 \*   return in this run
  \* ---- main(), continued
  specs,         \* main(): `specs`
  port,          \* main(): `port`
  gen_specs,     \* specifications handed to the latest generate_dockerfile
  generations,   \* calls of generate_dockerfile so far
  info_code,     \* ensure_docker(): exit code of the latest `docker info`
  poll_i,        \* ensure_docker(): polls made by the for loop
  triggers,      \* times `open -a Docker` was run
  container,     \* containers of the target name the engine holds
  rm_code,       \* docker_run(): exit code of `docker rm -f`
  run_code,      \* docker_run(): exit code of `docker run -d`
  removals,      \* `docker rm -f` commands run so far
  build_ok,      \* builds that exited with status zero so far
  starts,        \* containers started so far
  ready,         \* outcome of wait_for_ready, until the test command runs
  execs,         \* test commands executed so far
  test_code,     \* exit code of the cycle's test command
  published,     \* port of `-p port:port` of the latest `docker run`
  \* ---- run(): the child process and its two pipes
  run_pc,        \* position of run(): idle, read_out, read_err, returned
  child,         \* what the child still has to write: sequence of "o" / "e"
  child_rc,      \* exit code the child will exit with
  child_exited,  \* the child has exited (its pipe ends are closed)
  out_pipe,      \* lines in the kernel pipe of stdout
  err_pipe,      \* lines in the kernel pipe of stderr
  out_buf,       \* lines in the reader's buffer of proc.stdout
  err_buf,       \* lines in the reader's buffer of proc.stderr
  out,           \* run(): `out` (TRUE: a line, FALSE: "" at end of file)
  err,           \* run(): `err`
  stdout_chunks, \* number of lines appended to stdout_chunks
  stderr_chunks, \* number of lines appended to stderr_chunks
  returncode     \* what run() returned as exit code

input_vars == <<argv, environ, spec_file, readme_text, scripts, env_files,
                descriptors, readme_exists, pkg_exists>>
ensure_vars == <<info_code, poll_i, triggers>>
cycle_vars == <<container, rm_code, run_code, removals, build_ok, starts,
                ready, execs, test_code, published>>
main_vars == <<pc, exitCode, attempt, build_attempt, dockerfile, collab,
               verdict, built, builds, cycles, true_seen, last_text, specs,
               port, gen_specs, generations, input_vars, ensure_vars,
               cycle_vars>>
run_vars == <<run_pc, child, child_rc, child_exited, out_pipe, err_pipe,
              out_buf, err_buf, out, err, stdout_chunks, stderr_chunks,
              returncode>>
vars == <<main_vars, run_vars>>

----------------------------------------------------------------------------
(* Texts *)

Whitespace == {" ", "\n", "\t"}

RECURSIVE LStrip(_)
LStrip(s) ==
  IF s = <<>> THEN s
  ELSE IF Head(s) \in Whitespace THEN LStrip(Tail(s)) ELSE s

RECURSIVE RStrip(_)
RStrip(s) ==
  IF s = <<>> THEN s
  ELSE IF s[Len(s)] \in Whitespace THEN RStrip(SubSeq(s, 1, Len(s) - 1)) ELSE s

\* str.strip()
Strip(s) == RStrip(LStrip(s))

LowerChar(c) ==
  CASE c = "T" -> "t"
    [] c = "R" -> "r"
    [] c = "U" -> "u"
    [] c = "E" -> "e"
    [] c = "F" -> "f"
    [] c = "A" -> "a"
    [] c = "L" -> "l"
    [] c = "S" -> "s"
    [] c = "X" -> "x"
    [] c = "P" -> "p"
    [] c = "O" -> "o"
    [] c = "M" -> "m"
    [] OTHER -> c

\* str.lower()
Lower(s) == [i \in 1..Len(s) |-> LowerChar(s[i])]

\* Values a collaborator call can produce: a text, None, or an exception.
Text(s) == [k |-> "text", v |-> s]
None == [k |-> "none", v |-> <<>>]
Raise == [k |-> "raise", v |-> <<>>]
NoCall == [op |-> "none", res |-> None]
Call(o, r) == [op |-> o, res |-> r]

\* The file: absent, or present with a text.
Absent == [k |-> "absent", v |-> <<>>]
File(s) == [k |-> "file", v |-> s]

\* Descriptor texts the generator and the refiner may return in the runs
\* of Spec.
Descriptors ==
  { <<>>, <<" ">>, <<"a">>, <<"a", "\n">>, <<" ", "a">>, <<"b">> }

\* response_text values of the three collaborators.
GenerateResults == {Text(s) : s \in descriptors} \cup {None, Raise}
RefineResults == {Text(s) : s \in descriptors} \cup {None, Raise}
VerifyResults ==
  { Text(<<"t", "r", "u", "e">>),
    Text(<<"T", "r", "u", "e">>),
    Text(<<" ", "T", "R", "U", "E", "\n">>),
    Text(<<"F", "a", "l", "s", "e">>),
    Text(<<"f", "a", "l", "s", "e">>),
    Text(<<"T", "r", "u", "e", ".">>),
    Text(<<"t", "r", " ", "u", "e">>),
    Text(<<>>),
    None, Raise }

----------------------------------------------------------------------------
(* What the specification's words mean, stated without the code's operators *)

AllWhitespace(s, lo, hi) == \A k \in lo..hi : s[k] \in Whitespace

\* t is s without its surrounding whitespace.
IsTrimOf(t, s) ==
  \E i \in 0..Len(s), j \in 0..Len(s) :
    /\ i <= j
    /\ t = SubSeq(s, i + 1, j)
    /\ AllWhitespace(s, 1, i)
    /\ AllWhitespace(s, j + 1, Len(s))
    /\ t # <<>> => (t[1] \notin Whitespace /\ t[Len(t)] \notin Whitespace)

\* a and b are equal but for surrounding whitespace.
SameModuloWhitespace(a, b) ==
  \E i \in 0..Len(a), j \in 0..Len(a) :
    /\ i <= j
    /\ IsTrimOf(SubSeq(a, i + 1, j), a)
    /\ IsTrimOf(SubSeq(a, i + 1, j), b)

\* r reads "true" in any letter case, surrounded by whitespace only.
SaysTrue(r) ==
  \E i \in 1..Len(r) :
    /\ i + 3 <= Len(r)
    /\ r[i] \in {"t", "T"}
    /\ r[i + 1] \in {"r", "R"}
    /\ r[i + 2] \in {"u", "U"}
    /\ r[i + 3] \in {"e", "E"}
    /\ AllWhitespace(r, 1, i - 1)
    /\ AllWhitespace(r, i + 4, Len(r))

\* A refinement result that is a non-empty text differing from cur.
Effective(res, cur) ==
  /\ res.k = "text"
  /\ res.v # <<>>
  /\ ~SameModuloWhitespace(res.v, cur)

----------------------------------------------------------------------------
(* Constants and conditions of the code *)

NoExit == -1

max_attempts == 10

\* Mutant of max_test_attempts: one more outer attempt.
max_test_attempts_more == 5 + 1

max_test_attempts == 5

\* read_text(p): the text, or None when the read fails.
read_text(f) == IF f.k = "file" THEN Text(f.v) ELSE None

\* `x or ""` for a text or None.
OrEmpty(x) == IF x.k = "text" THEN x.v ELSE <<>>

\* Mutant of BuildBudgetSpent: the test is made with > instead of >=.
BuildBudgetSpent_late(a) == a > max_attempts

\* docker_build: `if attempt >= max_attempts: raise`.
BuildBudgetSpent(a) == a >= max_attempts

\* Mutant of NoEffectiveChange: the comparison is made without strip().
NoEffectiveChange_exact(refined, current_df) ==
  \/ refined.k = "none"
  \/ refined.v = <<>>
  \/ refined.v = current_df

\* docker_build: `not refined or refined.strip() == current_df.strip()`.
NoEffectiveChange(refined, current_df) ==
  \/ refined.k = "none"
  \/ refined.v = <<>>
  \/ Strip(refined.v) = Strip(current_df)

\* Mutant of RefinedFile: the file is opened for writing before the
\* collaborator is called, so an exception leaves it truncated.
RefinedFile_truncating(refined, f) ==
  IF refined.k = "raise" THEN File(<<>>)
  ELSE IF NoEffectiveChange(refined, OrEmpty(read_text(f))) THEN f
  ELSE File(refined.v)

\* Mutant of RefinedFile: the refined text is written stripped.
RefinedFile_stripped(refined, f) ==
  IF refined.k = "raise" THEN f
  ELSE IF NoEffectiveChange(refined, OrEmpty(read_text(f))) THEN f
  ELSE File(Strip(refined.v))

\* docker_build: what the three outcomes of the refinement write to the file.
RefinedFile(refined, f) ==
  IF refined.k = "raise" THEN f
  ELSE IF NoEffectiveChange(refined, OrEmpty(read_text(f))) THEN f
  ELSE File(refined.v)

\* Mutant of VerdictOf: the verdict is compared without lower().
VerdictOf_cased(res) ==
  IF res.k = "text" THEN Strip(Strip(res.v))
  ELSE <<"f", "a", "l", "s", "e">>

\* Mutant of VerdictOf: a failed call counts as a pass (fail-open).
VerdictOf_failopen(res) ==
  IF res.k = "text" THEN Lower(Strip(Strip(res.v)))
  ELSE <<"t", "r", "u", "e">>

\* test_verify (`resp.response_text.strip()`, AttributeError on None) and
\* main: `verdict = (test_verify(...) or "").strip().lower()`, with
\* `except Exception: verdict = "false"`.
VerdictOf(res) ==
  IF res.k = "text" THEN Lower(Strip(Strip(res.v)))
  ELSE <<"f", "a", "l", "s", "e">>

\* main: `if verdict == "true"`.
IsTrue(v) == v = <<"t", "r", "u", "e">>

\* Mutant of AttemptsRemain: the last attempt is given up one too early.
AttemptsRemain_short(a) == a < max_test_attempts - 1

\* main: `if attempt < max_test_attempts` (regenerate and continue).
AttemptsRemain(a) == a < max_test_attempts

\* Mutant of GenerateFails: an exception of the generator is swallowed and
\* an empty descriptor is written.
GenerateFails_swallowed(res) == res.k = "none"

\* write_dockerfile_from_readme: generate_dockerfile raising, or
\* write_text refusing None, leaves the function by an exception.
GenerateFails(res) == res.k # "text"

\* Mutant of InputsPresent: the package manifest is not looked for.
InputsPresent_readme_only == readme_exists

\* write_dockerfile_from_readme: the two existence checks.
InputsPresent == readme_exists /\ pkg_exists

----------------------------------------------------------------------------
(* resolve_specifications *)

\* A command-line word, an environment value or a file's text; the absence
\* of one (None); an exception.
Str(x) == [k |-> "str", v |-> x]
NoStr == [k |-> "none", v |-> ""]
RaiseStr == [k |-> "raise", v |-> ""]

\* DEFAULT_SPECIFICATIONS
DEFAULT_SPECIFICATIONS == Str("Default command should start the vue dev server on port 9528\n")

\* Words of the command line for which word.startswith("-") holds.
DashWords == {"--spec", "-s", "--spec-file", "-f", "-x"}

\* Truth value of a string or None.
Truthy(x) == x.k = "str" /\ x.v # ""

\* `a or b`
Or(a, b) == IF Truthy(a) THEN a ELSE b

\* The while loop over args = argv[2:]: the value of `spec` after it, or the
\* exception it raises.  sf is the file Path(args[i + 1]) names.
RECURSIVE ScanFlags(_, _, _, _)
ScanFlags(args, i, spec, sf) ==
  IF i > Len(args) THEN spec
  ELSE IF args[i] \in {"--spec", "-s"}
       THEN IF i + 1 > Len(args) THEN RaiseStr
            ELSE ScanFlags(args, i + 2, Str(args[i + 1]), sf)
  ELSE IF args[i] \in {"--spec-file", "-f"}
       THEN IF i + 1 > Len(args) THEN RaiseStr
            ELSE IF sf.k = "absent" THEN RaiseStr
            ELSE ScanFlags(args, i + 2,
                           Or(IF sf.k = "file" THEN Str(sf.v)
                                                      ELSE NoStr, Str("")),
                           sf)
  ELSE ScanFlags(args, i + 1, spec, sf)

\* The environment variables' value: `get(A) or get(B) or get(C)`.
EnvSpec(env) ==
  Or(Or(env.DOCKER_SPECS, env.DOCKER_SPECIFICATIONS), env.SPECIFICATIONS)

\* What follows the loop when it left spec None: the environment, then the
\* positional word argv[2], then the default.
AfterFlags(av, env) ==
  IF Truthy(EnvSpec(env)) THEN EnvSpec(env)
  ELSE IF Len(av) >= 3 /\ av[3] \notin DashWords THEN Str(av[3])
  ELSE DEFAULT_SPECIFICATIONS

\* resolve_specifications(argv); av[1] is the script, av[2] the README.
resolve_specifications(av, env, sf) ==
  LET spec == ScanFlags(SubSeq(av, 3, Len(av)), 1, NoStr, sf) IN
    IF spec.k # "none" THEN spec ELSE AfterFlags(av, env)

----------------------------------------------------------------------------
(* detect_port *)

\* No port found (None).
NoPort == -1

Digits == {"0", "1", "2", "3", "4", "5", "6", "7", "8", "9"}

DigitValue(c) ==
  CASE c = "0" -> 0 [] c = "1" -> 1 [] c = "2" -> 2 [] c = "3" -> 3
    [] c = "4" -> 4 [] c = "5" -> 5 [] c = "6" -> 6 [] c = "7" -> 7
    [] c = "8" -> 8 [] c = "9" -> 9

\* int(token) for a word without whitespace: NoPort where it raises.
\* (A sign or underscores, which int() also accepts, are left out.)
RECURSIVE IntValue(_, _)
IntValue(tok, acc) ==
  IF tok = <<>> THEN acc
  ELSE IntValue(Tail(tok), 10 * acc + DigitValue(Head(tok)))

ParseInt(tok) ==
  IF tok # <<>> /\ \A i \in 1..Len(tok) : tok[i] \in Digits
  THEN IntValue(tok, 0) ELSE NoPort

\* str.splitlines(), for the line end "\n".
RECURSIVE SplitAt(_, _, _)
SplitAt(s, cur, nl) ==
  IF s = <<>> THEN (IF cur = <<>> THEN <<>> ELSE <<cur>>)
  ELSE IF Head(s) = nl THEN <<cur>> \o SplitAt(Tail(s), <<>>, nl)
  ELSE SplitAt(Tail(s), Append(cur, Head(s)), nl)

SplitLines(s) == SplitAt(s, <<>>, "\n")

\* str.split(): the words between runs of whitespace.
RECURSIVE SplitWords(_, _)
SplitWords(s, cur) ==
  IF s = <<>> THEN (IF cur = <<>> THEN <<>> ELSE <<cur>>)
  ELSE IF Head(s) \in Whitespace
       THEN (IF cur = <<>> THEN <<>> ELSE <<cur>>) \o SplitWords(Tail(s), <<>>)
  ELSE SplitWords(Tail(s), Append(cur, Head(s)))

\* str.startswith
StartsWith(s, prefix) ==
  Len(s) >= Len(prefix) /\ SubSeq(s, 1, Len(prefix)) = prefix

ExposePrefix == <<"e", "x", "p", "o", "s", "e", " ">>

\* `for token in parts[1:]`: the first word int() accepts.
RECURSIVE FirstInt(_)
FirstInt(words) ==
  IF words = <<>> THEN NoPort
  ELSE IF ParseInt(Head(words)) # NoPort THEN ParseInt(Head(words))
  ELSE FirstInt(Tail(words))

\* `line_stripped.lower().startswith("expose ")`
IsExposeLine(line) == StartsWith(Lower(Strip(line)), ExposePrefix)

\* The loop over the Dockerfile's lines.
RECURSIVE ExposedPort(_)
ExposedPort(lines) ==
  IF lines = <<>> THEN NoPort
  ELSE IF /\ IsExposeLine(Head(lines))
          /\ FirstInt(Tail(SplitWords(Strip(Head(lines)), <<>>))) # NoPort
       THEN FirstInt(Tail(SplitWords(Strip(Head(lines)), <<>>)))
  ELSE ExposedPort(Tail(lines))

\* detect_port_from_text: a text is given by what the three searches find
\* in it (NoPort: no match), in the order the function tries them.
PortFromText(text) ==
  IF text.localhost # NoPort THEN text.localhost
  ELSE IF text.port_var # NoPort THEN text.port_var
  ELSE text.port_flag

\* `if p: return p`: None and 0 are passed over.
Found(p) == p # NoPort /\ p # 0

\* The first text of a list in which a port is found.
RECURSIVE FirstPort(_)
FirstPort(texts) ==
  IF texts = <<>> THEN NoPort
  ELSE IF Found(PortFromText(Head(texts))) THEN PortFromText(Head(texts))
  ELSE FirstPort(Tail(texts))

\* The port of the fallback.
FallbackPort == 9528

\* detect_port(project_root, readme_text, pkg): f is the Dockerfile, script
\* the values of pkg["scripts"], envs the texts of the .env files present.
detect_port(f, readme, script, envs) ==
  IF f.k = "file" /\ ExposedPort(SplitLines(f.v)) # NoPort
  THEN ExposedPort(SplitLines(f.v))
  ELSE IF Found(PortFromText(readme)) THEN PortFromText(readme)
  ELSE IF FirstPort(script) # NoPort THEN FirstPort(script)
  ELSE IF FirstPort(envs) # NoPort THEN FirstPort(envs)
  ELSE FallbackPort

----------------------------------------------------------------------------
(* main() *)

\* READINESS_TIMEOUT_SEC
READINESS_TIMEOUT_SEC == 120

\* Mutant of PollLimit: the timeout is not halved.
PollLimit_whole == READINESS_TIMEOUT_SEC

\* ensure_docker: `range(READINESS_TIMEOUT_SEC // 2)`.
PollLimit == READINESS_TIMEOUT_SEC \div 2

\* Mutant of RmAborts: docker_rm raises when the command exits non-zero.
RmAborts_checked(code) == code # 0

\* docker_rm: the result of run() is dropped.
RmAborts(code) == FALSE

\* Mutant of StartFailed: the exit code of docker run is not looked at.
StartFailed_ignored(code) == FALSE

\* docker_run: `if code != 0: raise`.
StartFailed(code) == code # 0

\* Mutant of ProbeAborts: only a ready service lets the attempt go on.
ProbeAborts_strict(outcome) == outcome # "ready"

\* main: wait_for_ready inside `try ... except Exception`.
ProbeAborts(outcome) == FALSE

\* Mutant of TestPassed: the test command's exit code has to be zero too.
TestPassed_coded(v, code) == IsTrue(v) /\ code = 0

\* main: `if verdict == "true"`; `code` of docker_exec is not read.
TestPassed(v, code) == IsTrue(v)

\* Mutant of RegenSpecs: the regeneration falls back to the default text.
RegenSpecs_default(sp) == DEFAULT_SPECIFICATIONS

\* main: the `specs` handed to the second write_dockerfile_from_readme.
RegenSpecs(sp) == sp

\* The engine refuses a second container of a name: the containers left
\* after `docker rm -f` exited with rm, and whether `docker run` can
\* exit with status zero then.
AfterRm(n, rm) == IF rm = 0 THEN 0 ELSE n
CanStart(n) == n = 0

\* Mutant of Fatal: the handler ends the run with the code of failed tests.
Fatal_as_tests_failed ==
  /\ pc' = "done"
  /\ exitCode' = 2

\* `except Exception as ex: ... sys.exit(1)`
Fatal ==
  /\ pc' = "done"
  /\ exitCode' = 1

\* sys.argv check, resolve_specifications, first write_dockerfile_from_readme,
\* derive_runtime.
Start ==
  /\ pc = "start"
  /\ \E res \in GenerateResults :
       LET sp == resolve_specifications(argv, environ, spec_file) IN
       IF Len(argv) < 2 \/ sp.k = "raise"
       THEN /\ Fatal
            /\ collab' = NoCall
            /\ UNCHANGED <<dockerfile, last_text, specs, port, gen_specs,
                           generations>>
       ELSE /\ specs' = sp
            /\ IF ~InputsPresent
               THEN /\ Fatal
                    /\ collab' = NoCall
                    /\ UNCHANGED <<dockerfile, last_text, port, gen_specs,
                                   generations>>
               ELSE /\ collab' = Call("generate", res)
                    /\ gen_specs' = sp
                    /\ generations' = generations + 1
                    /\ IF GenerateFails(res)
                       THEN /\ Fatal
                            /\ UNCHANGED <<dockerfile, last_text, port>>
                       ELSE /\ dockerfile' = File(res.v)
                            /\ last_text' = Text(res.v)
                            /\ port' = detect_port(File(res.v), readme_text,
                                                   scripts, env_files)
                            /\ pc' = "ensure"
                            /\ UNCHANGED exitCode
  /\ UNCHANGED <<attempt, build_attempt, verdict, built, builds, cycles,
                 true_seen, input_vars, ensure_vars, cycle_vars>>
  /\ UNCHANGED run_vars

\* ensure_docker(): the first `docker info`, and `open -a Docker` when it
\* fails.
EnsureDocker ==
  /\ pc = "ensure"
  /\ \E code \in {0, 1} :
       /\ info_code' = code
       /\ IF code = 0
          THEN pc' = "loop" /\ UNCHANGED <<poll_i, triggers>>
          ELSE /\ triggers' = triggers + 1
               /\ poll_i' = 0
               /\ pc' = "ensure_poll"
  /\ collab' = NoCall
  /\ UNCHANGED <<exitCode, attempt, build_attempt, dockerfile, verdict, built,
                 builds, cycles, true_seen, last_text, specs, port, gen_specs,
                 generations, input_vars, cycle_vars>>
  /\ UNCHANGED run_vars

\* ensure_docker(): one pass of the polling loop.  poll_i is a local: it
\* is gone when the function returns.
EnsurePoll ==
  /\ pc = "ensure_poll"
  /\ poll_i < PollLimit
  /\ \E code \in {0, 1} :
       /\ info_code' = code
       /\ IF code = 0
          THEN pc' = "loop" /\ poll_i' = 0
          ELSE pc' = "ensure_poll" /\ poll_i' = poll_i + 1
  /\ collab' = NoCall
  /\ UNCHANGED <<exitCode, attempt, build_attempt, dockerfile, verdict, built,
                 builds, cycles, true_seen, last_text, specs, port, gen_specs,
                 generations, input_vars, triggers, cycle_vars>>
  /\ UNCHANGED run_vars

\* ensure_docker(): the final check after the loop, which raises.
EnsureFinal ==
  /\ pc = "ensure_poll"
  /\ poll_i >= PollLimit
  /\ \E code \in {0, 1} :
       /\ info_code' = code
       /\ IF code = 0
          THEN pc' = "loop" /\ poll_i' = 0 /\ UNCHANGED exitCode
          ELSE Fatal /\ UNCHANGED poll_i
  /\ collab' = NoCall
  /\ UNCHANGED <<attempt, build_attempt, dockerfile, verdict, built,
                 builds, cycles, true_seen, last_text, specs, port, gen_specs,
                 generations, input_vars, triggers, cycle_vars>>
  /\ UNCHANGED run_vars

\* `for attempt in range(1, max_test_attempts + 1)` and the entry of
\* docker_build (`attempt = 1`).
LoopHead ==
  /\ pc = "loop"
  /\ IF attempt + 1 <= max_test_attempts
     THEN /\ attempt' = attempt + 1
          /\ build_attempt' = 1
          /\ builds' = 0
          /\ pc' = "build"
          /\ UNCHANGED exitCode
     ELSE /\ pc' = "done"
          /\ exitCode' = 2
          /\ UNCHANGED <<attempt, build_attempt, builds>>
  /\ collab' = NoCall
  /\ UNCHANGED <<dockerfile, verdict, built, cycles, true_seen, last_text,
                 specs, port, gen_specs, generations, input_vars, ensure_vars,
                 cycle_vars>>
  /\ UNCHANGED run_vars

\* docker_build: what follows a `docker build` that exited with code:
\* return, raise, or go on to refine.
BuildExited(code) ==
  /\ pc = "build"
  /\ built' = dockerfile
  /\ builds' = builds + 1
  /\ IF code = 0
     THEN pc' = "run" /\ build_ok' = build_ok + 1 /\ UNCHANGED exitCode
     ELSE /\ UNCHANGED build_ok
          /\ IF BuildBudgetSpent(build_attempt)
             THEN Fatal
             ELSE pc' = "refine" /\ UNCHANGED exitCode
  /\ collab' = NoCall
  /\ UNCHANGED <<attempt, build_attempt, dockerfile, verdict, cycles,
                 true_seen, last_text, specs, port, gen_specs, generations,
                 input_vars, ensure_vars, container, rm_code, run_code,
                 removals, starts, ready, execs, test_code, published>>

\* docker_build: one `docker build`, run() taken as a call that returns.
DockerBuild ==
  /\ \E code \in {0, 1} : BuildExited(code)
  /\ UNCHANGED run_vars

\* docker_build: refine_dockerfile and what follows it.
Refine ==
  /\ pc = "refine"
  /\ \E refined \in RefineResults :
       /\ collab' = Call("refine", refined)
       /\ dockerfile' = RefinedFile(refined, dockerfile)
       /\ last_text' = IF Effective(refined, dockerfile.v)
                        THEN refined ELSE last_text
       /\ IF refined.k = "raise"
          THEN /\ build_attempt' = build_attempt + 1
               /\ pc' = "build"
               /\ UNCHANGED exitCode
          ELSE IF NoEffectiveChange(refined, OrEmpty(read_text(dockerfile)))
               THEN /\ Fatal
                    /\ UNCHANGED build_attempt
               ELSE /\ build_attempt' = build_attempt + 1
                    /\ pc' = "build"
                    /\ UNCHANGED exitCode
  /\ UNCHANGED <<attempt, verdict, built, builds, cycles, true_seen, specs,
                 port, gen_specs, generations, input_vars, ensure_vars,
                 cycle_vars>>
  /\ UNCHANGED run_vars

\* docker_run(): docker rm -f, then docker run -d -p port:port.  A docker
\* run that fails may leave the container it created (left).
DockerRun ==
  /\ pc = "run"
  /\ \E rm \in {0, 1}, code \in {0, 1}, left \in BOOLEAN :
       /\ rm_code' = rm
       /\ removals' = removals + 1
       /\ IF RmAborts(rm)
          THEN /\ Fatal
               /\ container' = AfterRm(container, rm)
               /\ UNCHANGED <<run_code, starts, published>>
          ELSE /\ code = 0 => CanStart(AfterRm(container, rm))
               /\ left => (code # 0 /\ CanStart(AfterRm(container, rm)))
               /\ run_code' = code
               /\ published' = port
               /\ container' = AfterRm(container, rm)
                                 + (IF code = 0 \/ left THEN 1 ELSE 0)
               /\ IF StartFailed(code)
                  THEN Fatal /\ UNCHANGED starts
                  ELSE /\ pc' = "probe"
                       /\ starts' = starts + (IF code = 0 THEN 1 ELSE 0)
                       /\ UNCHANGED exitCode
  /\ collab' = NoCall
  /\ UNCHANGED <<attempt, build_attempt, dockerfile, verdict, built, builds,
                 cycles, true_seen, last_text, specs, port, gen_specs,
                 generations, input_vars, ensure_vars, build_ok, ready, execs,
                 test_code>>
  /\ UNCHANGED run_vars

\* wait_for_ready inside try/except: every outcome goes on to the tests.
\* The exit codes of docker_run() were its locals: they are gone.
Probe ==
  /\ pc = "probe"
  /\ \E outcome \in {"ready", "timeout", "raise"} :
       /\ ready' = outcome
       /\ IF ProbeAborts(outcome)
          THEN Fatal
          ELSE pc' = "exec" /\ UNCHANGED exitCode
  /\ rm_code' = NoExit
  /\ run_code' = NoExit
  /\ collab' = NoCall
  /\ UNCHANGED <<attempt, build_attempt, dockerfile, verdict, built, builds,
                 cycles, true_seen, last_text, specs, port, gen_specs,
                 generations, input_vars, ensure_vars, container, removals,
                 build_ok, starts, execs, test_code, published>>
  /\ UNCHANGED run_vars

\* docker_exec and the assembly of combined_output.  The outcome of the
\* probe is kept by nothing.
Exec ==
  /\ pc = "exec"
  /\ \E code \in {0, 1} : test_code' = code
  /\ execs' = execs + 1
  /\ ready' = "none"
  /\ pc' = "judge"
  /\ collab' = NoCall
  /\ UNCHANGED <<exitCode, attempt, build_attempt, dockerfile, verdict, built,
                 builds, cycles, true_seen, last_text, specs, port, gen_specs,
                 generations, input_vars, ensure_vars, container, rm_code,
                 run_code, removals, build_ok, starts, published>>
  /\ UNCHANGED run_vars

\* test_verify inside try/except, then `if verdict == "true": sys.exit(0)`.
Judge ==
  /\ pc = "judge"
  /\ \E res \in VerifyResults :
       /\ collab' = Call("verify", res)
       /\ verdict' = VerdictOf(res)
       /\ cycles' = cycles + 1
       /\ true_seen' = (true_seen \/ IsTrue(VerdictOf(res)))
       /\ IF TestPassed(VerdictOf(res), test_code)
          THEN pc' = "done" /\ exitCode' = 0
          ELSE pc' = "diag" /\ UNCHANGED exitCode
  /\ UNCHANGED <<attempt, build_attempt, dockerfile, built, builds, last_text,
                 specs, port, gen_specs, generations, input_vars, ensure_vars,
                 cycle_vars>>
  /\ UNCHANGED run_vars

\* After a failed verdict: docker_logs_tail, then regenerate, detect the
\* port again and `continue`, or `break` and sys.exit(2).  The result of the
\* test command is read by nothing after this step: it is cleared.
Diagnose ==
  /\ pc = "diag"
  /\ test_code' = NoExit
  /\ IF AttemptsRemain(attempt)
     THEN \E res \in GenerateResults :
            IF ~InputsPresent
            THEN /\ Fatal
                 /\ collab' = NoCall
                 /\ UNCHANGED <<dockerfile, last_text, port, gen_specs,
                                generations>>
            ELSE /\ collab' = Call("generate", res)
                 /\ gen_specs' = RegenSpecs(specs)
                 /\ generations' = generations + 1
                 /\ IF GenerateFails(res)
                    THEN /\ Fatal
                         /\ UNCHANGED <<dockerfile, last_text, port>>
                    ELSE /\ dockerfile' = File(res.v)
                         /\ last_text' = Text(res.v)
                         /\ port' = detect_port(File(res.v), readme_text,
                                                scripts, env_files)
                         /\ pc' = "loop"
                         /\ UNCHANGED exitCode
     ELSE /\ pc' = "done"
          /\ exitCode' = 2
          /\ collab' = NoCall
          /\ UNCHANGED <<dockerfile, last_text, port, gen_specs, generations>>
  /\ UNCHANGED <<attempt, build_attempt, verdict, built, builds, cycles,
                 true_seen, specs, input_vars, ensure_vars, container,
                 rm_code, run_code, removals, build_ok, starts, ready, execs,
                 published>>
  /\ UNCHANGED run_vars

Next ==
  \/ Start
  \/ EnsureDocker
  \/ EnsurePoll
  \/ EnsureFinal
  \/ LoopHead
  \/ DockerBuild
  \/ Refine
  \/ DockerRun
  \/ Probe
  \/ Exec
  \/ Judge
  \/ Diagnose

\* A text in which detect_port_from_text finds nothing / the three ports.
NoMatch == [localhost |-> NoPort, port_var |-> NoPort, port_flag |-> NoPort]
Matches(a, b, c) == [localhost |-> a, port_var |-> b, port_flag |-> c]

NoEnviron ==
  [DOCKER_SPECS |-> NoStr, DOCKER_SPECIFICATIONS |-> NoStr,
   SPECIFICATIONS |-> NoStr]

\* Command lines of the runs of main().
MainArgvs ==
  { <<"agent.py">>,
    <<"agent.py", "README.md">>,
    <<"agent.py", "README.md", "text1">>,
    <<"agent.py", "README.md", "--spec">> }

\* What main() has not set yet.
MainFresh ==
  /\ pc = "start"
  /\ exitCode = NoExit
  /\ attempt = 0
  /\ build_attempt = 0
  /\ collab = NoCall
  /\ verdict = <<>>
  /\ built = Absent
  /\ builds = 0
  /\ cycles = 0
  /\ true_seen = FALSE
  /\ last_text = None
  /\ specs = NoStr
  /\ port = NoPort
  /\ gen_specs = NoStr
  /\ generations = 0
  /\ info_code = NoExit
  /\ poll_i = 0
  /\ triggers = 0
  /\ rm_code = NoExit
  /\ run_code = NoExit
  /\ removals = 0
  /\ build_ok = 0
  /\ starts = 0
  /\ ready = "none"
  /\ execs = 0
  /\ test_code = NoExit
  /\ published = NoPort

MainInit ==
  /\ MainFresh
  /\ dockerfile \in {Absent} \cup {File(s) : s \in {<<"a">>, <<"b">>}}
  /\ readme_exists \in BOOLEAN
  /\ pkg_exists \in BOOLEAN
  /\ argv \in MainArgvs
  /\ environ = NoEnviron
  /\ spec_file = Absent
  /\ readme_text = Matches(3000, NoPort, NoPort)
  /\ scripts = <<>>
  /\ env_files = <<>>
  /\ descriptors = Descriptors
  /\ container \in {0, 1}

RunIdle ==
  /\ run_pc = "idle"
  /\ child = <<>>
  /\ child_rc = 0
  /\ child_exited = FALSE
  /\ out_pipe = 0
  /\ err_pipe = 0
  /\ out_buf = 0
  /\ err_buf = 0
  /\ out = FALSE
  /\ err = FALSE
  /\ stdout_chunks = 0
  /\ stderr_chunks = 0
  /\ returncode = NoExit

Init == MainInit /\ RunIdle

Spec == Init /\ [][Next]_vars

----------------------------------------------------------------------------
(* run(): draining the two pipes of a child process *)

\* Lines a kernel pipe holds before a write to it blocks.
PipeCap == 2

\* Lines one read of the buffered reader takes out of the pipe.
BufLines == 2

\* Longest child program.
MaxChildLen == 4

Min(a, b) == IF a <= b THEN a ELSE b

\* What a child writes, in order: "o" a line to stdout, "e" a line to stderr.
Programs == UNION {[1..n -> {"o", "e"}] : n \in 0..MaxChildLen}

\* subprocess.Popen(..., stdout=PIPE, stderr=PIPE)
Popen ==
  /\ run_pc = "idle"
  /\ \E prog \in Programs, rc \in {0, 1} :
       /\ child' = prog
       /\ child_rc' = rc
  /\ run_pc' = "read_out"
  /\ UNCHANGED <<child_exited, out_pipe, err_pipe, out_buf, err_buf, out, err,
                 stdout_chunks, stderr_chunks, returncode>>
  /\ UNCHANGED main_vars

\* The child writes its next line; the write blocks while the pipe is full.
ChildWrite ==
  /\ run_pc # "idle"
  /\ ~child_exited
  /\ child # <<>>
  /\ IF Head(child) = "o"
     THEN /\ out_pipe < PipeCap
          /\ out_pipe' = out_pipe + 1
          /\ UNCHANGED err_pipe
     ELSE /\ err_pipe < PipeCap
          /\ err_pipe' = err_pipe + 1
          /\ UNCHANGED out_pipe
  /\ child' = Tail(child)
  /\ UNCHANGED <<run_pc, child_rc, child_exited, out_buf, err_buf, out, err,
                 stdout_chunks, stderr_chunks, returncode>>
  /\ UNCHANGED main_vars

\* The child exits, which closes its ends of both pipes.
ChildExit ==
  /\ run_pc # "idle"
  /\ ~child_exited
  /\ child = <<>>
  /\ child_exited' = TRUE
  /\ UNCHANGED <<run_pc, child, child_rc, out_pipe, err_pipe, out_buf, err_buf,
                 out, err, stdout_chunks, stderr_chunks, returncode>>
  /\ UNCHANGED main_vars

\* readline() can return: a line is buffered or in the pipe, or the pipe is
\* at end of file.  Otherwise the call blocks.
CanRead(buf, pipe) == buf > 0 \/ pipe > 0 \/ child_exited

\* `out = proc.stdout.readline()`
ReadOut ==
  /\ run_pc = "read_out"
  /\ CanRead(out_buf, out_pipe)
  /\ IF out_buf > 0
     THEN /\ out_buf' = out_buf - 1
          /\ out' = TRUE
          /\ UNCHANGED out_pipe
     ELSE IF out_pipe > 0
          THEN /\ out_pipe' = out_pipe - Min(out_pipe, BufLines)
               /\ out_buf' = Min(out_pipe, BufLines) - 1
               /\ out' = TRUE
          ELSE /\ out' = FALSE
               /\ UNCHANGED <<out_pipe, out_buf>>
  /\ run_pc' = "read_err"
  /\ UNCHANGED <<child, child_rc, child_exited, err_pipe, err_buf, err,
                 stdout_chunks, stderr_chunks, returncode>>
  /\ UNCHANGED main_vars

\* `err = proc.stderr.readline()`, the two appends and the loop's exit test.
ReadErr ==
  /\ run_pc = "read_err"
  /\ CanRead(err_buf, err_pipe)
  /\ LET got == err_buf > 0 \/ err_pipe > 0 IN
       /\ IF err_buf > 0
          THEN /\ err_buf' = err_buf - 1
               /\ UNCHANGED err_pipe
          ELSE IF err_pipe > 0
               THEN /\ err_pipe' = err_pipe - Min(err_pipe, BufLines)
                    /\ err_buf' = Min(err_pipe, BufLines) - 1
               ELSE UNCHANGED <<err_pipe, err_buf>>
       /\ err' = got
       /\ stdout_chunks' = stdout_chunks + (IF out THEN 1 ELSE 0)
       /\ stderr_chunks' = stderr_chunks + (IF got THEN 1 ELSE 0)
       /\ IF ~out /\ ~got /\ child_exited
          THEN /\ run_pc' = "returned"
               /\ returncode' = child_rc
          ELSE /\ run_pc' = "read_out"
               /\ UNCHANGED returncode
  /\ UNCHANGED <<child, child_rc, child_exited, out_pipe, out_buf, out>>
  /\ UNCHANGED main_vars

RunNext ==
  \/ Popen
  \/ ChildWrite
  \/ ChildExit
  \/ ReadOut
  \/ ReadErr

RunInit ==
  /\ MainInit
  /\ dockerfile = Absent
  /\ readme_exists
  /\ pkg_exists
  /\ argv = <<"agent.py", "README.md">>
  /\ container = 0
  /\ RunIdle

RunSpec == RunInit /\ [][RunNext]_vars

\* The scheduler keeps running both processes: a step that stays possible
\* is eventually taken.
FairRunSpec ==
  /\ RunSpec
  /\ WF_vars(Popen)
  /\ WF_vars(ChildWrite)
  /\ WF_vars(ChildExit)
  /\ WF_vars(ReadOut)
  /\ WF_vars(ReadErr)

----------------------------------------------------------------------------
(* main() with the `docker build` of docker_build going through run() *)

\* What `docker build` writes in the runs below: one line to each stream, or
\* three lines of progress to stderr.  Every such child ends by itself once
\* its lines are written.
BuildPrograms == { <<"o", "e">>, <<"e", "e", "e">> }

\* docker_build: `code, out, err = run(build_cmd, ..., live=True)`, the call.
BuildPopen ==
  /\ pc = "build"
  /\ run_pc = "idle"
  /\ \E prog \in BuildPrograms, rc \in {0, 1} :
       /\ child' = prog
       /\ child_rc' = rc
  /\ run_pc' = "read_out"
  /\ UNCHANGED <<child_exited, out_pipe, err_pipe, out_buf, err_buf, out, err,
                 stdout_chunks, stderr_chunks, returncode>>
  /\ UNCHANGED main_vars

\* docker_build: run() has returned; `if code == 0` and what follows.  The
\* locals of run() are gone.
BuildReturned ==
  /\ run_pc = "returned"
  /\ BuildExited(returncode)
  /\ run_pc' = "idle"
  /\ child' = <<>>
  /\ child_rc' = 0
  /\ child_exited' = FALSE
  /\ out_pipe' = 0
  /\ err_pipe' = 0
  /\ out_buf' = 0
  /\ err_buf' = 0
  /\ out' = FALSE
  /\ err' = FALSE
  /\ stdout_chunks' = 0
  /\ stderr_chunks' = 0
  /\ returncode' = NoExit

MainRunNext ==
  \/ Start
  \/ EnsureDocker
  \/ EnsurePoll
  \/ EnsureFinal
  \/ LoopHead
  \/ BuildPopen
  \/ ChildWrite
  \/ ChildExit
  \/ ReadOut
  \/ ReadErr
  \/ BuildReturned
  \/ Refine
  \/ DockerRun
  \/ Probe
  \/ Exec
  \/ Judge
  \/ Diagnose

\* One command line, the inputs present, no container of the name yet.
MainRunInit ==
  /\ MainInit
  /\ dockerfile = Absent
  /\ readme_exists
  /\ pkg_exists
  /\ argv = <<"agent.py", "README.md">>
  /\ container = 0
  /\ RunIdle

MainRunSpec == MainRunInit /\ [][MainRunNext]_vars

\* main() keeps running, every collaborator call and engine command of its
\* steps returning or raising; the child of `docker build` keeps running:
\* it writes whenever there is room in the pipe and exits after its last
\* line; a readline() that can return does.
FairMainRunSpec ==
  /\ MainRunSpec
  /\ WF_vars(Start)
  /\ WF_vars(EnsureDocker)
  /\ WF_vars(EnsurePoll)
  /\ WF_vars(EnsureFinal)
  /\ WF_vars(LoopHead)
  /\ WF_vars(BuildPopen)
  /\ WF_vars(ChildWrite)
  /\ WF_vars(ChildExit)
  /\ WF_vars(ReadOut)
  /\ WF_vars(ReadErr)
  /\ WF_vars(BuildReturned)
  /\ WF_vars(Refine)
  /\ WF_vars(DockerRun)
  /\ WF_vars(Probe)
  /\ WF_vars(Exec)
  /\ WF_vars(Judge)
  /\ WF_vars(Diagnose)

----------------------------------------------------------------------------
(* resolve_specifications and detect_port, each applied alone *)

\* Words that follow the README path on the command line.
ArgWords == {"text1", "text2", "--spec", "-f", "-x"}

\* Command lines with up to two words after the README path.
ResolveArgvs ==
  { <<"agent.py", "README.md">> \o tl :
      tl \in {<<>>} \cup {<<a>> : a \in ArgWords}
               \cup {<<a, b>> : a \in ArgWords, b \in ArgWords} }

\* Values of the three environment variables: unset, empty, a text.
ResolveEnvirons ==
  [DOCKER_SPECS : {NoStr, Str(""), Str("env1")},
   DOCKER_SPECIFICATIONS : {NoStr, Str("env2")},
   SPECIFICATIONS : {NoStr, Str("env3")}]

ResolveInit ==
  /\ MainFresh
  /\ RunIdle
  /\ argv \in ResolveArgvs
  /\ environ \in ResolveEnvirons
  /\ spec_file \in {Absent, File(""), File("filetext")}
  /\ dockerfile = Absent
  /\ readme_exists = TRUE
  /\ pkg_exists = TRUE
  /\ readme_text = NoMatch
  /\ scripts = <<>>
  /\ env_files = <<>>
  /\ descriptors = Descriptors
  /\ container = 0

\* specs = resolve_specifications(sys.argv)
Resolve ==
  /\ pc = "start"
  /\ specs' = resolve_specifications(argv, environ, spec_file)
  /\ pc' = "resolved"
  /\ UNCHANGED <<exitCode, attempt, build_attempt, dockerfile, collab,
                 verdict, built, builds, cycles, true_seen, last_text, port,
                 gen_specs, generations, input_vars, ensure_vars, cycle_vars>>
  /\ UNCHANGED run_vars

ResolveSpec == ResolveInit /\ [][Resolve]_vars

\* Dockerfiles: with no EXPOSE instruction, and with one in the forms the
\* Dockerfile reference gives (`EXPOSE <port>[/<protocol>] ...`, the
\* instruction in any case, whitespace between the words).
DetectDockerfiles ==
  { <<"F", "R", "O", "M", " ", "a">>,
    <<"E", "X", "P", "O", "S", "E", " ", "8", "0">>,
    <<"e", "x", "p", "o", "s", "e", " ", "8", "0", "\n">>,
    <<"F", "R", "O", "M", " ", "a", "\n",
      " ", "E", "X", "P", "O", "S", "E", " ", " ", "8", "0", " ", "8", "1">>,
    <<"E", "X", "P", "O", "S", "E", " ", "8", "0", "8", "0", "/", "t", "c",
      "p">>,
    <<"E", "X", "P", "O", "S", "E", "\t", "8", "0">>,
    <<"E", "X", "P", "O", "S", "E", " ", "0">> }

\* What the searches find in the README, in the scripts, in the .env files.
DetectReadmes ==
  { NoMatch, Matches(3000, NoPort, NoPort), Matches(NoPort, 4000, 4001),
    Matches(0, 4000, NoPort) }

DetectScripts ==
  { <<>>, <<Matches(NoPort, NoPort, 5000)>>,
    <<NoMatch, Matches(NoPort, 5001, NoPort)>> }

DetectEnvFiles ==
  { <<>>, <<Matches(NoPort, 6000, NoPort)>>,
    <<Matches(NoPort, 0, NoPort), Matches(6001, NoPort, NoPort)>> }

DetectInit ==
  /\ MainFresh
  /\ RunIdle
  /\ dockerfile \in {Absent} \cup {File(d) : d \in DetectDockerfiles}
  /\ readme_text \in DetectReadmes
  /\ scripts \in DetectScripts
  /\ env_files \in DetectEnvFiles
  /\ descriptors = Descriptors
  /\ argv = <<"agent.py", "README.md">>
  /\ environ = NoEnviron
  /\ spec_file = Absent
  /\ readme_exists = TRUE
  /\ pkg_exists = TRUE
  /\ container = 0

\* port = detect_port(project_root, readme_text, pkg)
Detect ==
  /\ pc = "start"
  /\ port' = detect_port(dockerfile, readme_text, scripts, env_files)
  /\ pc' = "detected"
  /\ UNCHANGED <<exitCode, attempt, build_attempt, dockerfile, collab,
                 verdict, built, builds, cycles, true_seen, last_text, specs,
                 gen_specs, generations, input_vars, ensure_vars, cycle_vars>>
  /\ UNCHANGED run_vars

DetectSpec == DetectInit /\ [][Detect]_vars

----------------------------------------------------------------------------
(* main() with descriptors that carry EXPOSE lines *)

\* Descriptor texts of these runs: without an EXPOSE line, and with one.
ExposeDescriptors ==
  { <<"F", "R", "O", "M", " ", "a">>,
    <<"E", "X", "P", "O", "S", "E", " ", "8", "0">> }

PortInit ==
  /\ MainFresh
  /\ RunIdle
  /\ descriptors = ExposeDescriptors
  /\ dockerfile = Absent
  /\ readme_exists = TRUE
  /\ pkg_exists = TRUE
  /\ argv = <<"agent.py", "README.md">>
  /\ environ = NoEnviron
  /\ spec_file = Absent
  /\ readme_text = Matches(3000, NoPort, NoPort)
  /\ scripts = <<>>
  /\ env_files = <<>>
  /\ container = 0

PortSpec == PortInit /\ [][Next]_vars

----------------------------------------------------------------------------
(* Properties *)

False5 == <<"f", "a", "l", "s", "e">>

\* C1: a Judge step whose response reads "true" (any case, surrounding
\* whitespace ignored) ends the run at once with exit code 0; a Judge step
\* with any other response leaves the run going without an exit code; exit
\* code 0 comes from no other step; and nothing happens after the exit.
C1_TrueVerdictExits ==
  [][ /\ pc # "done"
      /\ pc = "judge" =>
           IF collab'.res.k = "text" /\ SaysTrue(collab'.res.v)
           THEN pc' = "done" /\ exitCode' = 0
           ELSE pc' = "diag" /\ exitCode' = NoExit
      /\ exitCode' = 0 => pc = "judge" ]_vars

C1_Witness ==
  /\ pc = "done"
  /\ exitCode = 0
  /\ attempt = 3
  /\ collab = Call("verify", Text(<<" ", "T", "R", "U", "E", "\n">>))

\* C2: one call of docker_build makes at most 10 image builds, and its
\* attempt counter counts the builds of this call only: it is 1 at the first
\* build of every outer iteration.
C2_BuildBudget ==
  /\ builds <= 10
  /\ pc = "build" => build_attempt = builds + 1
  /\ pc = "refine" => build_attempt = builds /\ builds < 10

C2_Witness ==
  /\ builds = 10
  /\ attempt = 2
  /\ pc = "done"
  /\ exitCode = 1

\* C3: at most 5 outer cycles reach Judge, one per outer attempt.
C3_OuterBudget ==
  /\ cycles <= 5
  /\ attempt <= 5
  /\ cycles <= attempt

C3_Witness ==
  /\ cycles = 5
  /\ pc = "diag"

\* C4: the exit code is 2 exactly when the run has ended after 5 cycles
\* reached Judge with no "true" verdict; while outer attempts remain the
\* exit code is not 2.
C4_ExitTwo ==
  /\ exitCode = 2 <=> (pc = "done" /\ cycles = 5 /\ ~true_seen)
  /\ attempt < 5 => exitCode # 2

C4_Witness ==
  /\ exitCode = 2
  /\ cycles = 5
  /\ verdict = False5

\* C5: a refinement that returns an empty text, or a text equal to the
\* current descriptor but for surrounding whitespace, ends the build loop
\* (and the run) at once: the file is not written, no build follows.
C5_NoChangeAborts ==
  [][ /\ pc # "done"
      /\ ( /\ pc = "refine"
           /\ collab'.res.k = "text"
           /\ \/ collab'.res.v = <<>>
              \/ SameModuloWhitespace(collab'.res.v, dockerfile.v) )
         => /\ pc' = "done"
            /\ exitCode' = 1
            /\ dockerfile' = dockerfile
            /\ builds' = builds
            /\ build_attempt' = build_attempt ]_vars

C5_Witness ==
  /\ pc = "done"
  /\ exitCode = 1
  /\ collab = Call("refine", Text(<<"a", "\n">>))
  /\ dockerfile = File(<<" ", "a">>)
  /\ build_attempt = 2

\* C6: when the refinement call raises, the file keeps its text, the attempt
\* counter goes up by one, and the build that follows runs against the same
\* descriptor as the build before.
C6_RefineErrorRetries ==
  [][ /\ (pc = "refine" /\ collab'.res = Raise)
         => /\ dockerfile' = dockerfile
            /\ build_attempt' = build_attempt + 1
            /\ pc' = "build"
            /\ exitCode' = NoExit
      /\ (pc = "build" /\ collab = Call("refine", Raise))
         => /\ builds' = builds + 1
            /\ built' = built ]_vars

C6_Witness ==
  /\ pc = "build"
  /\ collab = Call("refine", Raise)
  /\ build_attempt = 3
  /\ dockerfile = File(<<"b">>)
  /\ built = File(<<"b">>)

\* C7: when the verdict call raises, the verdict is "false" and the attempt
\* goes the way of a failed verdict: the Judge step ends in the diagnostics
\* with no exit code, and from there the run regenerates while attempts
\* remain and exits with code 2 otherwise.
C7_VerdictErrorIsFalse ==
  [][ /\ (pc = "judge" /\ collab'.res = Raise)
         => /\ verdict' = False5
            /\ pc' = "diag"
            /\ exitCode' = NoExit
      /\ (pc = "diag" /\ collab = Call("verify", Raise))
         => IF attempt < 5
            THEN /\ collab'.op = "generate"
                 /\ exitCode' # 0
                 /\ exitCode' = 1 <=> collab'.res.k # "text"
                 /\ exitCode' = NoExit <=> pc' = "loop"
            ELSE pc' = "done" /\ exitCode' = 2 ]_vars

C7_Witness ==
  /\ pc = "diag"
  /\ collab = Call("verify", Raise)
  /\ verdict = False5
  /\ attempt = 5

\* C8 as stated: no failed call of a text-generation collaborator ends the
\* run with the fatal exit code.
C8_NoCollaboratorFailureIsFatal ==
  collab.res = Raise => ~(pc = "done" /\ exitCode = 1)

\* C8 as amended: a failed refinement or verdict call leaves the run going;
\* a failed descriptor generation, at startup or on regeneration, ends the
\* run with exit code 1.
C8_OnlyGenerationFailureIsFatal ==
  /\ (collab.op \in {"refine", "verify"} /\ collab.res = Raise)
       => pc # "done" /\ exitCode = NoExit
  /\ (collab.op = "generate" /\ collab.res = Raise)
       => pc = "done" /\ exitCode = 1

C8_Witness ==
  /\ collab = Call("generate", Raise)
  /\ attempt = 2
  /\ cycles = 2
  /\ exitCode = 1

\* C9: run() never stops short of returning: until it has returned, the
\* child or the reader can take a step.
C9_RunNeverBlocks == run_pc = "returned" \/ ENABLED RunNext

\* C10: after every step the file holds the text of the latest successful
\* generation or effective refinement, and a refinement that raised or made
\* no change has left the file as it was.
C10_FileIsLastText ==
  [][ /\ last_text'.k = "text" => dockerfile' = File(last_text'.v)
      /\ (pc = "refine" /\ ~Effective(collab'.res, dockerfile.v))
         => dockerfile' = dockerfile ]_vars

C10_Witness ==
  /\ pc = "build"
  /\ collab = Call("refine", Text(<<"a", "\n">>))
  /\ dockerfile = File(<<"a", "\n">>)
  /\ built = File(<<"b">>)

\* C11: the engine never holds more than one container of the target name; a
\* step that starts a container is the docker_run() step, which has run
\* `docker rm -f` first, in the same outer attempt; and a `docker rm -f` that
\* exits non-zero raises nothing: `docker run` is still issued, and when it
\* exits with status zero the attempt goes on to the readiness probe.
C11_RemoveBeforeStart ==
  [][ /\ container' <= 1
      /\ starts' # starts =>
           /\ pc = "run"
           /\ starts' = starts + 1
           /\ removals' = removals + 1
           /\ attempt' = attempt
      /\ (pc = "run" /\ rm_code' # 0) =>
           /\ run_code' \in {0, 1}
           /\ run_code' = 0 => (pc' = "probe" /\ exitCode' = NoExit)
    ]_vars

\* C11 witness: no container of the name existed, the removal exited
\* non-zero and the container was started all the same.
C11_Witness ==
  /\ pc = "probe"
  /\ attempt = 1
  /\ rm_code = 1
  /\ run_code = 0
  /\ container = 1
  /\ starts = 1
  /\ removals = 1
  /\ exitCode = NoExit

\* C12: whatever the readiness probe did (ready, timed out, raised), the
\* step after it is the test command and the step after that the verdict:
\* the probe never ends the attempt or the run, and every started container
\* has its test command executed and judged.
C12_ProbeNeverAborts ==
  [][ /\ pc = "probe" =>
           /\ ready' \in {"ready", "timeout", "raise"}
           /\ pc' = "exec"
           /\ exitCode' = NoExit
           /\ attempt' = attempt
      /\ pc = "exec" => (pc' = "judge" /\ execs' = execs + 1
                         /\ exitCode' = NoExit)
      /\ pc = "judge" => (collab'.op = "verify" /\ cycles' = cycles + 1)
      /\ execs' = starts' - (IF pc' \in {"probe", "exec"} THEN 1 ELSE 0)
      /\ cycles' = execs' - (IF pc' = "judge" THEN 1 ELSE 0)
    ]_vars

\* C12 witness: the probe of the second attempt timed out and the run is at
\* the test command.
C12_Witness ==
  /\ pc = "exec"
  /\ ready = "timeout"
  /\ attempt = 2
  /\ starts = 2
  /\ execs = 1
  /\ exitCode = NoExit

\* The command line carries one of the four specification flags.
FlagGiven(av) ==
  \E i \in 3..Len(av) : av[i] \in {"--spec", "-s", "--spec-file", "-f"}

\* The command line carries a positional specification text.
PositionalGiven(av) == Len(av) >= 3 /\ av[3] \notin DashWords

\* An environment variable is set (to a text that is not empty).
IsSet(x) == x.k = "str" /\ x.v # ""

\* C13: with no --spec/-s/--spec-file/-f on the command line,
\* resolve_specifications returns the positional text when there is one;
\* otherwise the first set variable among DOCKER_SPECS,
\* DOCKER_SPECIFICATIONS, SPECIFICATIONS; otherwise the default text.
C13_PositionalBeforeEnvironment ==
  (pc = "resolved" /\ ~FlagGiven(argv)) =>
    specs = (IF PositionalGiven(argv) THEN Str(argv[3])
             ELSE IF IsSet(environ.DOCKER_SPECS) THEN environ.DOCKER_SPECS
             ELSE IF IsSet(environ.DOCKER_SPECIFICATIONS)
                  THEN environ.DOCKER_SPECIFICATIONS
             ELSE IF IsSet(environ.SPECIFICATIONS)
                  THEN environ.SPECIFICATIONS
             ELSE DEFAULT_SPECIFICATIONS)

\* The digits a word starts with.
RECURSIVE LeadingDigits(_)
LeadingDigits(tok) ==
  IF tok # <<>> /\ Head(tok) \in Digits
  THEN <<Head(tok)>> \o LeadingDigits(Tail(tok))
  ELSE <<>>

\* The port an EXPOSE instruction names first (`EXPOSE <port>[/<protocol>]`,
\* the instruction's name in any case), NoPort for any other line.
DirectivePort(line) ==
  LET w == SplitWords(line, <<>>) IN
    IF Len(w) >= 2 /\ Lower(w[1]) = <<"e", "x", "p", "o", "s", "e">>
    THEN ParseInt(LeadingDigits(w[2]))
    ELSE NoPort

\* The port of the first EXPOSE instruction of a Dockerfile.
RECURSIVE DeclaredPort(_)
DeclaredPort(lines) ==
  IF lines = <<>> THEN NoPort
  ELSE IF DirectivePort(Head(lines)) # NoPort THEN DirectivePort(Head(lines))
  ELSE DeclaredPort(Tail(lines))

\* C14: for a Dockerfile with an EXPOSE instruction, detect_port returns the
\* port that instruction names, whatever the README, the package scripts
\* and the .env files contain.
C14_ExposeWins ==
  (/\ pc = "detected"
   /\ dockerfile.k = "file"
   /\ DeclaredPort(SplitLines(dockerfile.v)) # NoPort) =>
    port = DeclaredPort(SplitLines(dockerfile.v))

\* C15: when the tenth build of a docker_build call fails, or a refinement
\* returns no effective change, that step ends the run with exit code 1:
\* no container is started, no test command executed, no verdict asked for,
\* no descriptor generated and no outer attempt begun by it, and nothing
\* happens after it, however many outer attempts remain.
C15_BuildFailureIsFatal ==
  [][ /\ pc # "done"
      /\ ( \/ /\ pc = "build"
              /\ builds' = 10
              /\ build_ok' = build_ok
           \/ /\ pc = "refine"
              /\ collab'.res.k = "text"
              /\ \/ collab'.res.v = <<>>
                 \/ SameModuloWhitespace(collab'.res.v, dockerfile.v) )
         => /\ pc' = "done"
            /\ exitCode' = 1
            /\ starts' = starts
            /\ execs' = execs
            /\ cycles' = cycles
            /\ generations' = generations
            /\ attempt' = attempt ]_vars

\* C15 witness: the third outer attempt's tenth build failed and the run
\* ended with exit code 1, two outer attempts unused.
C15_Witness ==
  /\ pc = "done"
  /\ exitCode = 1
  /\ builds = 10
  /\ build_attempt = 10
  /\ attempt = 3
  /\ starts = 2
  /\ cycles = 2
  /\ generations = 3

\* C16: after a verdict that is not "true" on an outer attempt below 5, the
\* generator is called once, with the specification resolved at startup
\* (which never changes); the text it returns replaces the descriptor
\* whatever refinements it held, and the next step begins the next outer
\* attempt at its first build.  After the verdict of attempt 5 no generation
\* happens and the descriptor is left alone.
C16_RegenerateBetweenAttempts ==
  [][ /\ pc # "start" => specs' = specs
      /\ (pc = "diag" /\ attempt < 5) =>
           /\ collab'.op = "generate"
           /\ generations' = generations + 1
           /\ gen_specs' = specs
           /\ collab'.res.k = "text" =>
                /\ dockerfile' = File(collab'.res.v)
                /\ pc' = "loop"
                /\ exitCode' = NoExit
      /\ (pc = "diag" /\ attempt >= 5) =>
           /\ collab'.op # "generate"
           /\ generations' = generations
           /\ dockerfile' = dockerfile
           /\ pc' = "done"
      /\ (pc = "loop" /\ collab.op = "generate") =>
           /\ pc' = "build"
           /\ attempt' = attempt + 1
           /\ build_attempt' = 1
           /\ generations' = generations
           /\ dockerfile' = dockerfile
      /\ pc \notin {"start", "diag"} => generations' = generations
    ]_vars

\* C16 witness: the first attempt built a refined descriptor, its verdict
\* was not "true", and the regeneration with the positional specification
\* text has replaced the refined descriptor.
C16_Witness ==
  /\ pc = "loop"
  /\ attempt = 1
  /\ build_attempt = 2
  /\ built = File(<<"a", "\n">>)
  /\ collab = Call("generate", Text(<<"b">>))
  /\ dockerfile = File(<<"b">>)
  /\ generations = 2
  /\ specs = Str("text1")
  /\ gen_specs = Str("text1")

\* C17: the exit code of the in-container test command decides nothing.
\* Whatever it is, the step after the test command is the verdict call, and
\* what the verdict step does (exit with code 0, or go on to the
\* diagnostics with no exit code) is a function of the collaborator's
\* response alone: a response reading "true" ends the run with exit code 0
\* after a test command that exited non-zero as after one that exited zero.
C17_TestExitCodeIgnored ==
  [][ /\ pc = "exec" =>
           /\ test_code' \in {0, 1}
           /\ pc' = "judge"
           /\ exitCode' = NoExit
      /\ pc = "judge" =>
           /\ test_code \in {0, 1}
           /\ (pc' = "done" /\ exitCode' = 0)
                <=> (collab'.res.k = "text" /\ SaysTrue(collab'.res.v))
           /\ (pc' = "diag" /\ exitCode' = NoExit)
                <=> ~(collab'.res.k = "text" /\ SaysTrue(collab'.res.v))
    ]_vars

\* C17 witness: the test command exited non-zero, the response read "true",
\* and the run ended with exit code 0.
C17_Witness ==
  /\ pc = "done"
  /\ exitCode = 0
  /\ test_code = 1
  /\ collab = Call("verify", Text(<<" ", "T", "R", "U", "E", "\n">>))
  /\ attempt = 1

\* C18: when the first `docker info` fails, the start trigger is run once
\* and never again; at most 60 polls and one final check follow; a check
\* that exits with status zero returns to main at once; and when the first
\* check, the 60 polls and the final check all failed the run ends with exit
\* code 1, no build having been made.
C18_EnsureDockerBounded ==
  [][ /\ poll_i' <= 60
      /\ triggers' <= 1
      /\ (pc = "ensure" /\ info_code' # 0) =>
           /\ triggers' = triggers + 1
           /\ poll_i' = 0
           /\ pc' = "ensure_poll"
      /\ pc # "ensure" => triggers' = triggers
      /\ (pc \in {"ensure", "ensure_poll"} /\ info_code' = 0) =>
           /\ pc' = "loop"
           /\ exitCode' = NoExit
      /\ (pc = "ensure_poll" /\ info_code' # 0) =>
           IF poll_i < 60
           THEN pc' = "ensure_poll" /\ poll_i' = poll_i + 1
                /\ exitCode' = NoExit
           ELSE pc' = "done" /\ exitCode' = 1
      /\ pc \in {"ensure", "ensure_poll"} =>
           /\ builds' = 0
           /\ build_ok' = 0
           /\ attempt' = 0
    ]_vars

\* C18 witness: the first check, 60 polls and the final check failed; the
\* trigger was run once and the run ended with exit code 1 before any build.
C18_Witness ==
  /\ pc = "done"
  /\ exitCode = 1
  /\ info_code = 1
  /\ poll_i = 60
  /\ triggers = 1
  /\ builds = 0
  /\ attempt = 0

\* C19: when the README does not exist, or no package.json sits next to it,
\* the first step of the run ends it with exit code 1, and no step of the
\* run calls the generator or touches the Dockerfile.
C19_MissingInputsAreFatal ==
  [][ ~(readme_exists /\ pkg_exists) =>
        /\ pc = "start"
        /\ pc' = "done"
        /\ exitCode' = 1
        /\ collab'.op # "generate"
        /\ generations' = 0
        /\ dockerfile' = dockerfile ]_vars

\* C19 witness: the README is there, package.json is not; the run ended
\* with exit code 1 and the Dockerfile that was there is untouched.
C19_Witness ==
  /\ pc = "done"
  /\ exitCode = 1
  /\ readme_exists
  /\ ~pkg_exists
  /\ argv = <<"agent.py", "README.md", "text1">>
  /\ specs = Str("text1")
  /\ generations = 0
  /\ dockerfile = File(<<"a">>)

\* C20: the steps of an outer cycle come in the order build, run, probe,
\* exec, judge.  The run step follows a build that exited with status zero
\* in the same cycle; the probe and the test command follow a `docker run`
\* of the same cycle that exited with status zero; and each executed test
\* command is followed by one call of the verdict collaborator, which is
\* called by no other step.
C20_CycleOrder ==
  [][ /\ pc' = "run" => (pc = "build" /\ build_ok' = build_ok + 1)
      /\ pc' = "probe" =>
           (pc = "run" /\ run_code' = 0 /\ starts' = starts + 1)
      /\ pc' = "exec" => pc = "probe"
      /\ pc' = "judge" => (pc = "exec" /\ execs' = execs + 1)
      /\ execs' # execs => pc = "exec"
      /\ collab'.op = "verify" <=> pc = "judge"
      /\ pc = "judge" => cycles' = cycles + 1
      /\ pc' \in {"run", "probe", "exec", "judge"} => build_ok' = attempt'
      /\ pc' \in {"probe", "exec", "judge"} => starts' = attempt'
      /\ pc' = "judge" => execs' = attempt'
      /\ cycles' = execs' - (IF pc' = "judge" THEN 1 ELSE 0)
    ]_vars

\* C20 witness: the second cycle has built, started its container and run
\* its test command; the verdict of the first cycle is the only one so far.
C20_Witness ==
  /\ pc = "judge"
  /\ attempt = 2
  /\ build_ok = 2
  /\ starts = 2
  /\ execs = 2
  /\ cycles = 1
  /\ collab = NoCall

\* C21: every run of main() in which the collaborator calls and the engine
\* commands return or raise, and the child of `docker build` ends once its
\* output is read, reaches its end, with exit code 0, 1 or 2.
C21_RunTerminates == <>(pc = "done" /\ exitCode \in {0, 1, 2})

\* C22: when a container has been started, the port it publishes, which is
\* also the port the readiness probe asks, is the port detect_port returns
\* for the Dockerfile on disk, the one the image was just built from.
C22_PublishedPortIsDetected ==
  pc = "probe" =>
    /\ built = dockerfile
    /\ published = port
    /\ published = detect_port(dockerfile, readme_text, scripts, env_files)

====
